---- MODULE Spec2Model ----
(***************************************************************************)
(* A model of the iNaturalist query pipeline of api-query.py and of the    *)
(* label lookups of labels.py.                                             *)
(*                                                                         *)
(* Python values are represented as follows.  None is the empty tuple and  *)
(* a present value v of a nullable field is the one-element tuple <<v>>,   *)
(* so that "is None" is a test the model can make and a comparison of None *)
(* with a number is something the model has to handle, as Python does.     *)
(* Strings that the code only passes around or compares for equality are   *)
(* TLA+ strings; the names that the code lower-cases and searches (place   *)
(* and taxon names) are tuples of one-letter strings.                      *)
(***************************************************************************)
EXTENDS Integers, Sequences, FiniteSets, TLC

VARIABLES
    pc,               \* where main() is
    DEBUG_MODE,       \* the module-level switch of api-query.py
    taxon_id,         \* main: the resolved taxon id or None
    place_id,         \* main: the resolved place id or None
    page,             \* fetch_observations: the page to request next
    total_results,    \* fetch_observations: the recorded total or None
    all_observations, \* fetch_observations: the accumulator
    observations,     \* main: what fetch_observations returned
    idx,              \* main: observations handled by the classification loop
    obs_rg_accurate,  \* main: first bucket
    obs_other,        \* main: second bucket
    all_place_ids,    \* main: the place ids seen in the observations
    places_missing_info, \* main: the place ids already back-filled
    raised,           \* the exception that ended the run, or "none"
    out,              \* what the run has printed or written so far: <<text, n>>,
                      \* n the id or the count the line is about (0: none kept)
    last_call,        \* the last api_get_request: cache hit or not, seconds slept
    requests,         \* history: the page numbers requested, in order
    fetch_failed,     \* history: some page request returned a non-success status
    honest,           \* history: every page so far was served as total and page size say
    reported,         \* history: the total_results of the last page response, or None
    enriched,         \* history: the records get_location_data returned, in order
    pages,            \* history: the result lists of the page responses, in order
    elevations,       \* history: the responses of the elevation lookups, in order
    backfill_calls,   \* history: the place ids fetch_place_info was called on, in order
    csv_file,         \* the rows save_to_csv wrote, or None (no file)
    annotation_analysis, \* main: what analyze_annotations returned, or None
    coordinates,      \* fetch_observations: the bounding box argument or None
    queries,          \* history: the params of the page requests, in order
    fn_in,            \* the argument of the function applied (resolution checks)
    fn_out            \* its result

vars == <<pc, DEBUG_MODE, taxon_id, place_id, page, total_results,
          all_observations, observations, idx, obs_rg_accurate, obs_other,
          all_place_ids, places_missing_info, raised, out, last_call,
          requests, fetch_failed, honest, reported, enriched, pages,
          elevations, backfill_calls, csv_file, annotation_analysis,
          coordinates, queries, fn_in, fn_out>>

(***************************************************************************)
(* Python values                                                           *)
(***************************************************************************)
None == <<>>

Some(v) == <<v>>

\* The value of a nullable that is not None.
Val(o) == o[1]

\* bool(x) of an int | None: None and 0 are false.
Truthy(o) == o # None /\ Val(o) # 0

Min(a, b) == IF a <= b THEN a ELSE b

Max(a, b) == IF a >= b THEN a ELSE b

\* The elements of a sequence, as a set.
Range(s) == {s[i] : i \in 1..Len(s)}

\* All sequences over S of length lo..hi.
SeqsOf(S, lo, hi) == UNION {[1..n -> S] : n \in lo..hi}

(***************************************************************************)
(* Bounds of the model                                                     *)
(***************************************************************************)
\* The largest total_results the server reports.
MaxTotal == 3

\* The largest number of records the server puts on one page.
PageCap == 2

\* The longest observation list the classification loop is started on.
MaxObs == 2

\* The longest observation list the sort check is started on.
MaxSortLen == 4

\* The longest candidate list of an autocomplete response.
MaxCandidates == 3

\* The longest observation list analyze_annotations is applied to.
MaxAnalyzeLen == 3

(***************************************************************************)
(* labels.py: the static tables (an excerpt with the table's own entries)  *)
(* and the three lookups.  bbox_area is kept in hundredths, truncated.     *)
(***************************************************************************)
term_labels == (1 :> "Life Stage") @@ (12 :> "Plant Phenology")

value_labels == (2 :> "Adult") @@ (13 :> "Flowering") @@ (14 :> "Fruits or Seeds")

places_info ==
    (1 :> [name |-> "United States", bbox_area |-> 634938, place_type |-> Some(12)])
    @@ (10 :> [name |-> "Oregon", bbox_area |-> 3549, place_type |-> Some(8)])
    @@ (14 :> [name |-> "California", bbox_area |-> 9813, place_type |-> Some(8)])
    @@ (90 :> [name |-> "Saint James", bbox_area |-> 8, place_type |-> Some(1001)])
    @@ (2757 :> [name |-> "Siskiyou", bbox_area |-> 231, place_type |-> Some(9)])
    @@ (3957 :> [name |-> "Shasta-Trinity National Forest", bbox_area |-> 436,
                 place_type |-> Some(100)])
    @@ (123596 :> [name |-> "Siskiyou Wilderness", bbox_area |-> 18, place_type |-> Some(100)])
    @@ (179168 :> [name |-> "River Complex Fire 2021", bbox_area |-> 22, place_type |-> None])

\* term_labels.get(term_id): the label or None.
get_term_label(term_id) ==
    IF term_id \in DOMAIN term_labels THEN Some(term_labels[term_id]) ELSE None

\* value_labels.get(value_id): the label or None.
get_value_label(value_id) ==
    IF value_id \in DOMAIN value_labels THEN Some(value_labels[value_id]) ELSE None

\* The name of the placeholder record: f"Not found ({place_id})".
NotFoundName(id) == "Not found (" \o ToString(id) \o ")"

\* Line 471 with a placeholder name that leaves the id out.
GetPlaceInfoUnnamed(id) ==
    IF id \in DOMAIN places_info
    THEN places_info[id]
    ELSE [name |-> "Not found", bbox_area |-> 0, place_type |-> None]

\* places_info.get(place_id), or the placeholder record.
get_place_info(id) ==
    IF id \in DOMAIN places_info
    THEN places_info[id]
    ELSE [name |-> NotFoundName(id), bbox_area |-> 0, place_type |-> None]

\* What get_place_info prints for the id: a line for an id without a label.
PlaceInfoPrints(id) ==
    IF id \in DOMAIN places_info THEN {} ELSE {<<"Missing place_id label", id>>}

(***************************************************************************)
(* list.sort / sorted with a key: ascending and stable.  Comparing None    *)
(* with anything raises TypeError, and every element of a list of two or   *)
(* more is compared at least once.                                         *)
(***************************************************************************)
\* s ordered by the integer keys k (k[i] is the key of s[i]), ties in s's order.
StableSort(s, k) ==
    LET n == Len(s)
        pos(i) == Cardinality({j \in 1..n : k[j] < k[i] \/ (k[j] = k[i] /\ j <= i)})
    IN  [p \in 1..n |-> s[CHOOSE i \in 1..n : pos(i) = p]]

\* The rearrangements of s.
Rearranged(s) ==
    {[i \in 1..Len(s) |-> s[f[i]]] : f \in Permutations(1..Len(s))}

\* Whether sorting s by the nullable keys k raises TypeError.
SortRaises(s, k) == Len(s) >= 2 /\ \E i \in 1..Len(s) : k[i] = None

\* s sorted by the nullable keys k when the sort does not raise: a list of
\* fewer than two is left as it is, no key being compared.
SortByKey(s, k) ==
    IF Len(s) < 2 THEN s ELSE StableSort(s, [i \in 1..Len(s) |-> Val(k[i])])

(***************************************************************************)
(* elevation_get_request_macrostrat.  A response is                        *)
(*   [status_code, body, meters]                                           *)
(* where body says what response.content holds: "empty" (no content),      *)
(* "invalid" (not JSON), "no_field" (JSON without success.data.elevation), *)
(* "null" (the elevation is null), "text" (the elevation is a string that  *)
(* is no number) or "number" (the elevation is meters).                    *)
(* The result is [exc, value]: the exception that leaves the function, or  *)
(* "none" and the returned string.                                         *)
(***************************************************************************)
ElevationBodies == {"empty", "invalid", "no_field", "null", "text", "number"}

ElevationMeters == {0, 100, 1000}

ElevationResponses ==
    {[status_code |-> sc, body |-> b, meters |-> m] :
        sc \in {200, 500}, b \in ElevationBodies \ {"number"}, m \in {0}}
    \cup {[status_code |-> sc, body |-> "number", meters |-> m] :
        sc \in {200, 500}, m \in ElevationMeters}

\* str(int(int(meters) * 3.28084)) for meters >= 0.
MetersToFeetString(meters) == ToString((meters * 328084) \div 100000)

elevation_get_request_macrostrat(response, debug) ==
    IF debug /\ response.body \in {"empty", "invalid"}
    THEN \* print(response.json()) outside the try
         [exc |-> "ValueError", value |-> ""]
    ELSE IF response.status_code = 200 /\ response.body # "empty"
    THEN CASE response.body = "invalid"  -> [exc |-> "none", value |-> "Error"]
           [] response.body = "no_field" -> [exc |-> "KeyError", value |-> ""]
           [] response.body = "null"     -> [exc |-> "TypeError", value |-> ""]
           [] response.body = "text"     -> [exc |-> "none", value |-> "Error"]
           [] response.body = "number"   ->
                [exc |-> "none", value |-> MetersToFeetString(response.meters)]
    ELSE [exc |-> "none", value |-> "Error"]

\* What the lookup prints when it returns: the lines say nothing of the
\* observation or the coordinates.
ElevationPrints(response) ==
    IF response.status_code = 200 /\ response.body # "empty"
    THEN IF response.body \in {"invalid", "text"}
         THEN {<<"Response received but contains invalid JSON", 0>>,
               <<"Raw response", 0>>}
         ELSE {}
    ELSE {<<"Invalid API reponse", 0>>}

(***************************************************************************)
(* get_location_data.  An observation is                                   *)
(*   [id, quality_grade, geoprivacy, positional_accuracy,                  *)
(*    observed_on_details, place_ids, annotations]                         *)
(* with quality_grade, geoprivacy, positional_accuracy nullable,           *)
(* observed_on_details None or <<[month, day]>> with month and day         *)
(* nullable, and each annotation [controlled_attribute_id,                 *)
(* controlled_value_id].                                                   *)
(***************************************************************************)
Obs(id, grade, geo, acc, date, places, annots) ==
    [id |-> id, quality_grade |-> grade, geoprivacy |-> geo,
     positional_accuracy |-> acc, observed_on_details |-> date,
     place_ids |-> places, annotations |-> annots]

Date(m, d) == Some([month |-> m, day |-> d])

Annot(term, value) ==
    [controlled_attribute_id |-> term, controlled_value_id |-> value]

\* Line 287 with <= for <: the slip that takes an accuracy of exactly 1000
\* for accurate.
AccurateLocationInclusive(observation) ==
    IF observation.geoprivacy # Some("obscured")
       /\ (observation.positional_accuracy = None
           \/ Val(observation.positional_accuracy) <= 1000)
    THEN TRUE
    ELSE FALSE

\* Line 287 as it is written.
AccurateLocation(observation) ==
    IF observation.geoprivacy # Some("obscured")
       /\ (observation.positional_accuracy = None
           \/ Val(observation.positional_accuracy) < 1000)
    THEN TRUE
    ELSE FALSE

\* Lines 294-298 without the test of the term: every annotation sets status.
RECURSIVE StatusOfAnyTerm(_, _)
StatusOfAnyTerm(annotations, status) ==
    IF annotations = <<>>
    THEN status
    ELSE StatusOfAnyTerm(
            Tail(annotations),
            get_value_label(Head(annotations).controlled_value_id))

\* The loop over the annotations: the label of the value of an annotation of
\* term 12, the last one if there are several; "" if there is none.
RECURSIVE PhenologyStatus(_, _)
PhenologyStatus(annotations, status) ==
    IF annotations = <<>>
    THEN status
    ELSE PhenologyStatus(
            Tail(annotations),
            IF Head(annotations).controlled_attribute_id = 12
            THEN get_value_label(Head(annotations).controlled_value_id)
            ELSE status)

\* Lines 303-308 keeping the first place of a type instead of the last.
RECURSIVE PlaceWalkFirstWins(_, _)
PlaceWalkFirstWins(place_ids, acc) ==
    IF place_ids = <<>>
    THEN acc
    ELSE LET place_info == get_place_info(Head(place_ids))
         IN  PlaceWalkFirstWins(
                Tail(place_ids),
                [places_info |-> Append(acc.places_info, place_info),
                 country |-> IF place_info.place_type = Some(12) /\ acc.country = ""
                             THEN place_info.name ELSE acc.country,
                 state   |-> IF place_info.place_type = Some(8) /\ acc.state = ""
                             THEN place_info.name ELSE acc.state,
                 county  |-> IF place_info.place_type \in {Some(9), Some(1001)}
                                /\ acc.county = ""
                             THEN place_info.name ELSE acc.county])

\* The loop over place_ids: acc is [places_info, country, state, county].
RECURSIVE PlaceWalk(_, _)
PlaceWalk(place_ids, acc) ==
    IF place_ids = <<>>
    THEN acc
    ELSE LET place_info == get_place_info(Head(place_ids))
         IN  PlaceWalk(
                Tail(place_ids),
                [places_info |-> Append(acc.places_info, place_info),
                 country |-> IF place_info.place_type = Some(12)
                             THEN place_info.name ELSE acc.country,
                 state   |-> IF place_info.place_type = Some(8)
                             THEN place_info.name ELSE acc.state,
                 county  |-> IF place_info.place_type \in {Some(9), Some(1001)}
                             THEN place_info.name ELSE acc.county])

\* Line 309 left out: the records in the order of place_ids.
InPlaceIdOrder(infos) == infos

\* Line 309: sorted(places_info, key=lambda x: x["bbox_area"]).
SortedByArea(infos) ==
    StableSort(infos, [i \in 1..Len(infos) |-> infos[i].bbox_area])

\* The record get_location_data returns for the observation, given the
\* string the elevation lookup returned.
get_location_data(observation, elevation_data) ==
    LET walk == PlaceWalk(observation.place_ids,
                          [places_info |-> <<>>, country |-> "",
                           state |-> "", county |-> ""])
    IN  [id |-> observation.id,
         geoprivacy |-> observation.geoprivacy,
         positional_accuracy |-> observation.positional_accuracy,
         observed_on_details |-> observation.observed_on_details,
         quality_grade |-> observation.quality_grade,
         elevation |-> elevation_data,
         accurate_location |-> AccurateLocation(observation),
         status |-> PhenologyStatus(observation.annotations, Some("")),
         country |-> walk.country,
         state |-> walk.state,
         county |-> walk.county,
         places_info |-> SortedByArea(walk.places_info),
         place_ids |-> observation.place_ids]

\* What the get_place_info calls of get_location_data print.
LocationDataPrints(observation) ==
    UNION {PlaceInfoPrints(observation.place_ids[i]) :
              i \in 1..Len(observation.place_ids)}

(***************************************************************************)
(* get_place_id and get_taxon_id.  A name is a tuple of letters; an        *)
(* autocomplete response is [status_code, results] with results None (the  *)
(* body has no results field) or <<list>>, the list's candidates being     *)
(* [id, name] (display_name of a place, name of a taxon).                  *)
(* The result is [exc, value]: the exception that leaves the function, or  *)
(* "none" and the returned id or None.                                     *)
(***************************************************************************)
LowerLetter(c) ==
    CASE c = "A" -> "a"
      [] c = "B" -> "b"
      [] OTHER   -> c

\* str.lower()
Lower(name) == [i \in 1..Len(name) |-> LowerLetter(name[i])]

\* q in name
Contains(q, name) ==
    \E i \in 0..(Len(name) - Len(q)) : SubSeq(name, i + 1, i + Len(q)) = q

\* data.get('results', [])
ResultsOrEmpty(response) ==
    IF response.results = None THEN <<>> ELSE Val(response.results)

\* The loop of get_place_id over the candidates: the id it returns, or None
\* when the loop ends without returning.
RECURSIVE PlaceLoop(_, _)
PlaceLoop(place_name, results) ==
    IF results = <<>>
    THEN None
    ELSE LET place == Head(results)
         IN  IF Lower(place.name) = Lower(place_name)
             THEN Some(place.id)
             ELSE IF Contains(Lower(place_name), Lower(place.name))
             THEN Some(place.id)
             ELSE PlaceLoop(place_name, Tail(results))

get_place_id(place_name, response) ==
    IF response.status_code = 200
    THEN LET found == PlaceLoop(place_name, ResultsOrEmpty(response))
         IN  IF found # None
             THEN [exc |-> "none", value |-> found]
             ELSE \* data['results'][0]
                  IF response.results = None
                  THEN [exc |-> "KeyError", value |-> None]
                  ELSE IF Val(response.results) = <<>>
                  THEN [exc |-> "IndexError", value |-> None]
                  ELSE [exc |-> "none", value |-> Some(Val(response.results)[1].id)]
    ELSE [exc |-> "none", value |-> None]

\* The loop of get_taxon_id over the candidates.
RECURSIVE TaxonLoop(_, _)
TaxonLoop(species_name, results) ==
    IF results = <<>>
    THEN None
    ELSE IF Lower(Head(results).name) = Lower(species_name)
         THEN Some(Head(results).id)
         ELSE TaxonLoop(species_name, Tail(results))

\* get_taxon_id with the fallbacks of get_place_id: to a candidate that only
\* contains the query, then to the first candidate.
GetTaxonIdWithFallback(species_name, response) ==
    get_place_id(species_name, response)

get_taxon_id(species_name, response) ==
    IF response.status_code = 200
    THEN [exc |-> "none", value |-> TaxonLoop(species_name, ResultsOrEmpty(response))]
    ELSE [exc |-> "none", value |-> None]

\* The names the model draws queries and candidates from.
QueryNames == {<<"a", "b">>, <<"A", "b">>}

CandidateNames ==
    {<<"a", "b">>, <<"A", "B">>, <<"x", "a", "b">>, <<"a", "B", "x">>,
     <<"x">>, <<"b", "a">>}

\* The candidate lists of up to n candidates; the i-th candidate has id 10 + i.
CandidateLists(n) ==
    {[i \in 1..Len(names) |-> [id |-> 10 + i, name |-> names[i]]] :
        names \in SeqsOf(CandidateNames, 0, n)}

AutocompleteResponses(n) ==
    {[status_code |-> sc, results |-> Some(l)] :
        sc \in {200, 500}, l \in CandidateLists(n)}
    \cup {[status_code |-> sc, results |-> None] : sc \in {200, 500}}

\* The configured names of api-query.py, over the model's letters.
SPECIES_NAME == <<"a", "b">>

PLACE_NAME == <<"A", "b">>

(***************************************************************************)
(* api_get_request: the request is answered from the cache or not (only    *)
(* responses of status 200 are cached), and the function sleeps one second *)
(* unless it takes the branch that reports the cache hit.                  *)
(***************************************************************************)
NoCall == [made |-> FALSE, from_cache |-> FALSE, slept |-> 0]

api_get_request(from_cache, debug) ==
    [made |-> TRUE,
     from_cache |-> from_cache,
     slept |-> IF from_cache /\ debug THEN 0 ELSE 1]

\* Whether the cache can have answered with this status.
CacheCanServe(from_cache, status_code) == from_cache => status_code = 200

(***************************************************************************)
(* The observations the search endpoint serves in a run of main.           *)
(***************************************************************************)
UnknownPlaceId == 424242

Pool ==
    {Obs(1, Some("research"), None, Some(5), Date(Some(3), Some(20)),
         <<1, 14, 2757>>, <<Annot(12, 13)>>),
     Obs(2, Some("research"), Some("obscured"), None, None,
         <<1, 14, UnknownPlaceId>>, <<>>),
     Obs(3, Some("needs_id"), Some("open"), Some(1000), Date(Some(1), Some(1)),
         <<>>, <<Annot(1, 2), Annot(12, 99)>>)}

\* A page response: [status_code, total_results, results], total_results None
\* when the body has no such field.
PageResponses ==
    {[status_code |-> 200, total_results |-> t, results |-> r] :
        t \in {None} \cup {Some(n) : n \in 0..MaxTotal},
        r \in SeqsOf(Pool, 0, PageCap)}
    \cup {[status_code |-> 500, total_results |-> None, results |-> <<>>]}

\* The elevation responses a run of main meets.
MainElevationResponses ==
    {[status_code |-> 200, body |-> "number", meters |-> 100],
     [status_code |-> 500, body |-> "empty", meters |-> 0],
     [status_code |-> 200, body |-> "no_field", meters |-> 0]}

(***************************************************************************)
(* fetch_observations: one action per iteration of its loop.               *)
(***************************************************************************)
\* Lines 140-141 without the test for None: the slip that takes the total
\* anew from every response.
RecordTotalEveryPage(recorded, response) ==
    IF response.total_results = None
    THEN Some(0)
    ELSE response.total_results

\* Lines 140-141: the total is taken from the first successful response.
RecordTotal(recorded, response) ==
    IF recorded = None
    THEN IF response.total_results = None
         THEN Some(0)
         ELSE response.total_results
    ELSE recorded

\* Line 151 with > for >=: the slip that asks for one page more when the
\* accumulated count equals the total.
RetrievedAllStrict(accumulated, recorded) == Len(accumulated) > Val(recorded)

\* Line 151: whether all observations have been retrieved.
RetrievedAll(accumulated, recorded) == Len(accumulated) >= Val(recorded)

\* The page size asked for.
PER_PAGE == 200

\* The bounding box main passes, in hundredths of a degree.
MainCoordinates == <<4173, -12110, 4032, -12320>>

\* if coordinates and len(coordinates) == 4
IsBoundingBox(coords) == coords # None /\ Len(Val(coords)) = 4

\* Lines 127-132 without line 128: the corners are added and the numeric
\* place id is kept.
QueryParamsKeepingPlace(taxon, place, coords, page_number) ==
    [taxon_id |-> ToString(Val(taxon)),
     place_id |-> ToString(Val(place)),
     per_page |-> PER_PAGE,
     page |-> page_number,
     order_by |-> "observed_on",
     order |-> "desc",
     nelat |-> IF IsBoundingBox(coords) THEN Some(Val(coords)[1]) ELSE None,
     nelng |-> IF IsBoundingBox(coords) THEN Some(Val(coords)[2]) ELSE None,
     swlat |-> IF IsBoundingBox(coords) THEN Some(Val(coords)[3]) ELSE None,
     swlng |-> IF IsBoundingBox(coords) THEN Some(Val(coords)[4]) ELSE None]

\* Lines 111-132: the params of the request of the page; a key the dict does
\* not hold is None, the ids are as the query string carries them.
QueryParams(taxon, place, coords, page_number) ==
    [taxon_id |-> ToString(Val(taxon)),
     place_id |-> IF IsBoundingBox(coords) THEN "any" ELSE ToString(Val(place)),
     per_page |-> PER_PAGE,
     page |-> page_number,
     order_by |-> "observed_on",
     order |-> "desc",
     nelat |-> IF IsBoundingBox(coords) THEN Some(Val(coords)[1]) ELSE None,
     nelng |-> IF IsBoundingBox(coords) THEN Some(Val(coords)[2]) ELSE None,
     swlat |-> IF IsBoundingBox(coords) THEN Some(Val(coords)[3]) ELSE None,
     swlng |-> IF IsBoundingBox(coords) THEN Some(Val(coords)[4]) ELSE None]

\* Line 148 with the page put in front of the accumulator.
ExtendInFront(accumulated, results) == results \o accumulated

\* Line 148: all_observations.extend(observations).
Extend(accumulated, results) == accumulated \o results

\* Lines 145-152 without the test of the empty page.
LoopStopsOnTotalOnly(results, accumulated, recorded) ==
    RetrievedAll(accumulated, recorded)

\* Lines 145-146 and 151-152: whether the loop is left after a successful
\* page, `accumulated` being the accumulator with the page added.
LoopStops(results, accumulated, recorded) ==
    results = <<>> \/ RetrievedAll(accumulated, recorded)

\* The number of records an honest server puts on page p of n in pages of PageCap.
HonestCount(n, p) == Min(PageCap, Max(0, n - (p - 1) * PageCap))

\* Whether the response to the request of page p is what a server holding
\* exactly the reported total, with no failure, would send.
HonestResponse(recorded, p, response) ==
    /\ response.status_code = 200
    /\ response.total_results # None
    /\ recorded # None => response.total_results = recorded
    /\ Len(response.results) = HonestCount(Val(response.total_results), p)

\* The loop is followed up to page MaxTotal + 1.
FetchPage ==
    /\ pc = "fetch"
    /\ page <= MaxTotal + 1
    /\ \E response \in PageResponses, from_cache \in BOOLEAN :
        /\ CacheCanServe(from_cache, response.status_code)
        /\ last_call' = api_get_request(from_cache, DEBUG_MODE)
        /\ requests' = Append(requests, page)
        /\ queries' = Append(queries,
                             QueryParams(taxon_id, place_id, coordinates, page))
        /\ honest' = (honest /\ HonestResponse(total_results, page, response))
        /\ reported' = response.total_results
        /\ pages' = Append(pages, response.results)
        /\ IF response.status_code = 200
           THEN LET total == RecordTotal(total_results, response)
                    grown == Extend(all_observations, response.results)
                    stop == LoopStops(response.results, grown, total)
                IN  /\ total_results' = total
                    /\ all_observations' = grown
                    /\ page' = IF stop THEN page ELSE page + 1
                    /\ pc' = IF stop THEN "fetched" ELSE "fetch"
                    /\ observations' = IF stop THEN grown ELSE observations
                    /\ out' = out \cup
                          (IF total_results = None
                           THEN {<<"Total observations found", 0>>}
                           ELSE {})
                    /\ UNCHANGED fetch_failed
           ELSE /\ out' = out \cup {<<"Error fetching data", response.status_code>>}
                /\ fetch_failed' = TRUE
                /\ pc' = "fetched"
                /\ observations' = all_observations
                /\ UNCHANGED <<total_results, all_observations, page>>
    /\ UNCHANGED <<DEBUG_MODE, coordinates, elevations, backfill_calls, csv_file,
                   annotation_analysis, taxon_id, place_id, idx, obs_rg_accurate,
                   obs_other, all_place_ids, places_missing_info, raised,
                   enriched, fn_in, fn_out>>

(***************************************************************************)
(* main: identifier resolution.                                            *)
(***************************************************************************)
ResolveTaxon ==
    /\ pc = "taxon"
    /\ \E response \in AutocompleteResponses(1), from_cache \in BOOLEAN :
        /\ CacheCanServe(from_cache, response.status_code)
        /\ last_call' = api_get_request(from_cache, DEBUG_MODE)
        /\ LET got == get_taxon_id(SPECIES_NAME, response)
           IN  /\ taxon_id' = got.value
               /\ IF Truthy(got.value)
                  THEN pc' = "place" /\ out' = out \cup {<<"Found taxon", Val(got.value)>>}
                  ELSE pc' = "done" /\ out' = out \cup {<<"Could not find taxon ID", 0>>}
    /\ UNCHANGED <<DEBUG_MODE, coordinates, queries, pages, elevations, backfill_calls, csv_file,
                   annotation_analysis, reported, place_id, page, total_results, all_observations,
                   observations, idx, obs_rg_accurate, obs_other, all_place_ids,
                   places_missing_info, raised, requests, fetch_failed, honest,
                   enriched, fn_in, fn_out>>

ResolvePlace ==
    /\ pc = "place"
    /\ \E response \in AutocompleteResponses(1), from_cache \in BOOLEAN :
        /\ CacheCanServe(from_cache, response.status_code)
        /\ last_call' = api_get_request(from_cache, DEBUG_MODE)
        /\ LET got == get_place_id(PLACE_NAME, response)
           IN  IF got.exc # "none"
               THEN /\ pc' = "crashed"
                    /\ raised' = got.exc
                    /\ UNCHANGED <<place_id, out>>
               ELSE /\ place_id' = got.value
                    /\ raised' = raised
                    /\ IF Truthy(got.value)
                       THEN pc' = "fetch" /\ out' = out
                       ELSE pc' = "done" /\ out' = out \cup {<<"Could not find place ID", 0>>}
    /\ UNCHANGED <<DEBUG_MODE, coordinates, queries, pages, elevations, backfill_calls, csv_file,
                   annotation_analysis, reported, taxon_id, page, total_results, all_observations,
                   observations, idx, obs_rg_accurate, obs_other, all_place_ids,
                   places_missing_info, requests, fetch_failed, honest,
                   enriched, fn_in, fn_out>>

(***************************************************************************)
(* save_to_csv and extract_observation_data.  The file is the sequence of  *)
(* the rows written: the header row, then one row per observation, each    *)
(* row holding the values of the sixteen columns in the order of           *)
(* fieldnames.  The columns whose source field the model's observations do *)
(* not carry are None.                                                     *)
(***************************************************************************)
fieldnames ==
    <<"id", "observed_on", "created_at", "place_guess",
      "latitude", "longitude", "positional_accuracy", "geoprivacy",
      "taxon_name", "common_name", "user_login", "user_name",
      "quality_grade", "annotations", "description", "url">>

\* The dict extract_observation_data returns; the annotations column has one
\* "term: value" entry per annotation, the url ends in the id.
extract_observation_data(obs) ==
    [f \in Range(fieldnames) |->
        CASE f = "id" -> Some(obs.id)
          [] f = "positional_accuracy" -> obs.positional_accuracy
          [] f = "geoprivacy" -> obs.geoprivacy
          [] f = "quality_grade" -> obs.quality_grade
          [] f = "annotations" -> Some(Len(obs.annotations))
          [] f = "url" -> Some(obs.id)
          [] OTHER -> None]

\* writer.writerow(obs_data): the values in the order of fieldnames.
writerow(obs_data) == [i \in 1..Len(fieldnames) |-> obs_data[fieldnames[i]]]

\* Lines 217-219: one row per observation, in the list's order.
DataRows(rows) ==
    [i \in 1..Len(rows) |-> writerow(extract_observation_data(rows[i]))]

\* The file after save_to_csv(observations, filename), `before` being the
\* file before the call: nothing is written for an empty list.
save_to_csv(rows, before) ==
    IF rows = <<>>
    THEN before
    ELSE Some(<<fieldnames>> \o DataRows(rows))

(***************************************************************************)
(* analyze_annotations.  The percentage is the fraction                    *)
(* len(observations_with_annotations) / len(observations) * 100, kept as   *)
(* numerator and denominator; the breakdown maps each pair of labels       *)
(* <<term_label, value_label>> met to the number of annotations with it.   *)
(***************************************************************************)
\* if annotations:
HasAnnotations(obs) == obs.annotations # <<>>

\* Lines 242-243 inside the loop over the annotations: the observation is
\* appended once per annotation.
RECURSIVE OncePerAnnotation(_)
OncePerAnnotation(rows) ==
    IF rows = <<>> THEN <<>>
    ELSE [i \in 1..Len(Head(rows).annotations) |-> Head(rows)]
         \o OncePerAnnotation(Tail(rows))

\* Lines 240-243: the observations that carry annotations, in order.
WithAnnotations(rows) == SelectSeq(rows, HasAnnotations)

\* The labels of the annotation, each None when the table has no such id.
AnnotationLabels(annotation) ==
    <<get_term_label(annotation.controlled_attribute_id),
      get_value_label(annotation.controlled_value_id)>>

\* Lines 245-258: annotation_stats.
AnnotationBreakdown(rows) ==
    LET at == UNION {{<<i, j>> : j \in 1..Len(rows[i].annotations)} :
                        i \in 1..Len(rows)}
        labels(p) == AnnotationLabels(rows[p[1]].annotations[p[2]])
    IN  [l \in {labels(p) : p \in at} |->
            Cardinality({p \in at : labels(p) = l})]

analyze_annotations(rows) ==
    LET with == WithAnnotations(rows)
    IN  [total_observations |-> Len(rows),
         observations_with_annotations |-> with,
         annotation_percentage |->
            IF rows # <<>>
            THEN [num |-> Len(with) * 100, den |-> Len(rows)]
            ELSE [num |-> 0, den |-> 1],
         annotation_breakdown |-> AnnotationBreakdown(rows)]

(***************************************************************************)
(* main, lines 502-528 and 580-581: the test of the fetched list, the      *)
(* annotation analysis, the two exports and the summary.  The locals of    *)
(* fetch_observations are gone once main has taken its result.             *)
(***************************************************************************)
ExportAndSummarise ==
    /\ pc = "fetched"
    /\ IF observations # <<>>
       THEN /\ pc' = "classify"
            /\ out' = out \cup {<<"Analyzing annotations", 0>>,
                                <<"Saved csv", Len(observations)>>,
                                <<"Saved json", Len(observations)>>,
                                <<"Summary", Len(observations)>>}
       ELSE /\ pc' = "done"
            /\ out' = out \cup {<<"No observations found", 0>>}
    /\ page' = 1
    /\ total_results' = None
    /\ all_observations' = <<>>
    /\ requests' = <<>>
    /\ queries' = <<>>
    /\ reported' = None
    /\ pages' = <<>>
    /\ annotation_analysis' = IF observations # <<>>
                              THEN Some(analyze_annotations(observations))
                              ELSE annotation_analysis
    /\ csv_file' = IF observations # <<>>
                   THEN save_to_csv(observations, csv_file)
                   ELSE csv_file
    /\ obs_rg_accurate' = <<>>
    /\ obs_other' = <<>>
    /\ all_place_ids' = {}
    /\ places_missing_info' = {}
    /\ UNCHANGED <<DEBUG_MODE, coordinates, elevations, backfill_calls, taxon_id, place_id, observations, idx, raised,
                   last_call, fetch_failed, honest, enriched, fn_in, fn_out>>

(***************************************************************************)
(* main, lines 532-541: one action per iteration of the classification     *)
(* loop.  The elevation lookup's response is drawn from `responses`.       *)
(***************************************************************************)
\* Lines 538-541 as two separate tests, without the else: a research-grade
\* record with an inaccurate location lands in both buckets, a record of
\* another grade with an accurate one in neither.
ClassifyIntoTwoTests(rg_accurate, other, location_info) ==
    [rg_accurate |-> IF location_info.quality_grade = Some("research")
                     THEN Append(rg_accurate, location_info) ELSE rg_accurate,
     other |-> IF ~location_info.accurate_location
               THEN Append(other, location_info) ELSE other]

\* Lines 538-541 with or for and.
ClassifyIntoEither(rg_accurate, other, location_info) ==
    IF location_info.quality_grade = Some("research")
       \/ location_info.accurate_location
    THEN [rg_accurate |-> Append(rg_accurate, location_info), other |-> other]
    ELSE [rg_accurate |-> rg_accurate, other |-> Append(other, location_info)]

\* Lines 538-541: the bucket the record is appended to.
ClassifyInto(rg_accurate, other, location_info) ==
    IF location_info.quality_grade = Some("research")
       /\ location_info.accurate_location
    THEN [rg_accurate |-> Append(rg_accurate, location_info), other |-> other]
    ELSE [rg_accurate |-> rg_accurate, other |-> Append(other, location_info)]

ClassifyStepWith(responses) ==
    /\ pc = "classify"
    /\ idx < Len(observations)
    /\ \E response \in responses :
        LET obs == observations[idx + 1]
            elevation_data == elevation_get_request_macrostrat(response, DEBUG_MODE)
        IN  IF elevation_data.exc # "none"
            THEN /\ pc' = "crashed"
                 /\ raised' = elevation_data.exc
                 /\ elevations' = Append(elevations, response)
                 /\ UNCHANGED <<idx, obs_rg_accurate, obs_other, all_place_ids,
                                out, enriched>>
            ELSE LET location_info == get_location_data(obs, elevation_data.value)
                     buckets == ClassifyInto(obs_rg_accurate, obs_other, location_info)
                 IN  /\ obs_rg_accurate' = buckets.rg_accurate
                     /\ obs_other' = buckets.other
                     /\ all_place_ids' = all_place_ids \cup Range(location_info.place_ids)
                     /\ out' = out \cup ElevationPrints(response)
                                   \cup LocationDataPrints(obs)
                     /\ enriched' = Append(enriched, location_info)
                     /\ elevations' = Append(elevations, response)
                     /\ idx' = idx + 1
                     /\ UNCHANGED <<pc, raised>>
    /\ UNCHANGED <<DEBUG_MODE, coordinates, queries, pages, backfill_calls, csv_file,
                   annotation_analysis, reported, taxon_id, place_id, page, total_results,
                   all_observations, observations, places_missing_info,
                   last_call, requests, fetch_failed, honest, fn_in, fn_out>>

ClassifyStep == ClassifyStepWith(MainElevationResponses)

EnrichStep == ClassifyStepWith(ElevationResponses)

(***************************************************************************)
(* main, lines 543-546: the four sorts, first bucket by day then by month, *)
(* second bucket by day then by month.  A sort that raises leaves its list *)
(* in some rearrangement and ends the run.                                 *)
(***************************************************************************)
\* The sentinel the sort keys use for a record without a date.
NoDateKey == 99

DayKey(x) ==
    IF x.observed_on_details # None
    THEN Val(x.observed_on_details).day
    ELSE Some(NoDateKey)

MonthKey(x) ==
    IF x.observed_on_details # None
    THEN Val(x.observed_on_details).month
    ELSE Some(NoDateKey)

DayKeys(s) == [i \in 1..Len(s) |-> DayKey(s[i])]

MonthKeys(s) == [i \in 1..Len(s) |-> MonthKey(s[i])]

\* The two sorts of one bucket: [exc, after], after the lists the bucket may
\* be left as.
SortBucket(s) ==
    IF SortRaises(s, DayKeys(s))
    THEN [exc |-> "TypeError", after |-> Rearranged(s)]
    ELSE LET by_day == SortByKey(s, DayKeys(s))
         IN  IF SortRaises(by_day, MonthKeys(by_day))
             THEN [exc |-> "TypeError", after |-> Rearranged(by_day)]
             ELSE [exc |-> "none", after |-> {SortByKey(by_day, MonthKeys(by_day))}]

SortBuckets ==
    /\ pc = "classify"
    /\ idx = Len(observations)
    /\ LET first == SortBucket(obs_rg_accurate)
           second == SortBucket(obs_other)
       IN  IF first.exc # "none"
           THEN /\ obs_rg_accurate' \in first.after
                /\ obs_other' = obs_other
                /\ pc' = "crashed"
                /\ raised' = first.exc
           ELSE /\ obs_rg_accurate' \in first.after
                /\ obs_other' \in second.after
                /\ pc' = IF second.exc # "none" THEN "crashed" ELSE "report"
                /\ raised' = IF second.exc # "none" THEN second.exc ELSE raised
    /\ UNCHANGED <<DEBUG_MODE, coordinates, queries, pages, elevations, backfill_calls, csv_file,
                   annotation_analysis, reported, taxon_id, place_id, page, total_results,
                   all_observations, observations, idx, all_place_ids,
                   places_missing_info, out, last_call, requests, fetch_failed,
                   honest, enriched, fn_in, fn_out>>

(***************************************************************************)
(* main, lines 547-574: the printed report.                                *)
(***************************************************************************)
\* The exception print_observation raises on the record, or "none":
\* formatting a None status (line 448), then places_info[0] (line 449).
print_observation(obs) ==
    IF obs.status = None
    THEN "TypeError"
    ELSE IF obs.places_info = <<>>
    THEN "IndexError"
    ELSE "none"

\* Lines 449-451: the place text, cut to 27 characters and "..." when longer.
PlaceText(obs) ==
    LET place_text == obs.places_info[1].name
    IN  IF Len(place_text) > 27
        THEN SubSeq(place_text, 1, 27) \o "..."
        ELSE place_text

\* Line 454: the marker, for any geoprivacy that is not None.
ObscuredMarker(obs) == IF obs.geoprivacy # None THEN "(obscured)" ELSE ""

\* What print_observation does with the record: [exc, place, obscured], the
\* exception that leaves it or "none", and the place and marker of the line
\* it prints.
PrintedLine(obs) ==
    IF print_observation(obs) # "none"
    THEN [exc |-> print_observation(obs), place |-> "", obscured |-> ""]
    ELSE [exc |-> "none", place |-> PlaceText(obs),
          obscured |-> ObscuredMarker(obs)]

Report ==
    /\ pc = "report"
    /\ LET lines == obs_rg_accurate \o obs_other
           bad == {i \in 1..Len(lines) : print_observation(lines[i]) # "none"}
           first_bad == IF bad = {} THEN Len(lines) + 1
                        ELSE CHOOSE i \in bad : \A j \in bad : i <= j
       IN  /\ out' = out \cup {<<"Quality grades", 0>>, <<"Annotation breakdown", 0>>}
                         \cup {<<"print_observation", lines[i].id>> :
                                  i \in 1..(first_bad - 1)}
           /\ pc' = IF bad = {} THEN "backfill" ELSE "crashed"
           /\ raised' = IF bad = {} THEN raised
                        ELSE print_observation(lines[first_bad])
    /\ UNCHANGED <<DEBUG_MODE, coordinates, queries, pages, elevations, backfill_calls, csv_file,
                   annotation_analysis, reported, taxon_id, place_id, page, total_results,
                   all_observations, observations, idx, obs_rg_accurate,
                   obs_other, all_place_ids, places_missing_info, last_call,
                   requests, fetch_failed, honest, enriched, fn_in, fn_out>>

(***************************************************************************)
(* main, lines 576-579: the pass over the place ids seen, in ascending     *)
(* order; one action per id without a label (the others are passed over),  *)
(* and one to leave the loop.  fetch_place_info prints what it gets.       *)
(***************************************************************************)
\* Line 577 without its test of the name: every place id seen is back-filled.
IsNotFoundAlways(id) == TRUE

\* get_place_info(place_id)["name"].startswith("Not found")
IsNotFound(id) == get_place_info(id).name = NotFoundName(id)

Backfill ==
    /\ pc = "backfill"
    /\ LET todo == {id \in all_place_ids :
                       IsNotFound(id) /\ id \notin places_missing_info}
       IN  IF todo = {}
           THEN /\ pc' = "done"
                /\ UNCHANGED <<places_missing_info, out, last_call,
                               backfill_calls>>
           ELSE LET id == CHOOSE i \in todo : \A j \in todo : i <= j
                IN  \E status_code \in {200, 500}, found \in BOOLEAN,
                       from_cache \in BOOLEAN :
                        /\ CacheCanServe(from_cache, status_code)
                        /\ last_call' = api_get_request(from_cache, DEBUG_MODE)
                        /\ places_missing_info' = places_missing_info \cup {id}
                        /\ backfill_calls' = Append(backfill_calls, id)
                        /\ out' = out \cup PlaceInfoPrints(id) \cup
                              {IF status_code # 200
                               THEN <<"Error fetching place info", status_code>>
                               ELSE IF found
                               THEN <<"Fetched place info", id>>
                               ELSE <<"No results found for place ID", id>>}
                        /\ pc' = pc
    /\ UNCHANGED <<DEBUG_MODE, coordinates, queries, pages, elevations, csv_file, annotation_analysis, reported, taxon_id, place_id, page, total_results,
                   all_observations, observations, idx, obs_rg_accurate,
                   obs_other, all_place_ids, raised, requests, fetch_failed,
                   honest, enriched, fn_in, fn_out>>

(***************************************************************************)
(* The run of main: Init is the state main starts in.                      *)
(***************************************************************************)
\* Everything but pc, DEBUG_MODE and the function-check variables.
FreshRun ==
    /\ taxon_id = None
    /\ place_id = None
    /\ page = 1
    /\ total_results = None
    /\ all_observations = <<>>
    /\ observations = <<>>
    /\ idx = 0
    /\ obs_rg_accurate = <<>>
    /\ obs_other = <<>>
    /\ all_place_ids = {}
    /\ places_missing_info = {}
    /\ raised = "none"
    /\ out = {}
    /\ last_call = NoCall
    /\ requests = <<>>
    /\ fetch_failed = FALSE
    /\ honest = TRUE
    /\ reported = None
    /\ enriched = <<>>
    /\ pages = <<>>
    /\ elevations = <<>>
    /\ backfill_calls = <<>>
    /\ csv_file = None
    /\ annotation_analysis = None
    /\ coordinates = Some(MainCoordinates)
    /\ queries = <<>>

Init ==
    /\ pc = "taxon"
    /\ DEBUG_MODE \in BOOLEAN
    /\ FreshRun
    /\ fn_in = None
    /\ fn_out = None

Next ==
    \/ ResolveTaxon
    \/ ResolvePlace
    \/ FetchPage
    \/ ExportAndSummarise
    \/ ClassifyStep
    \/ SortBuckets
    \/ Report
    \/ Backfill

Spec == Init /\ [][Next]_vars

(***************************************************************************)
(* get_location_data and the classification on one observation drawn from  *)
(* the whole range of its fields: main as it enters the classification     *)
(* loop with that observation fetched.                                     *)
(***************************************************************************)
EnrichInputs ==
    {Obs(1, grade, geo, acc, Date(Some(3), Some(20)), places, annots) :
        grade \in {Some("research"), Some("needs_id"), Some("casual"), None},
        geo \in {None, Some("open"), Some("obscured"), Some("private")},
        acc \in {None, Some(0), Some(999), Some(1000), Some(1001)},
        places \in {<<>>, <<1, 14, 2757>>, <<14, 10, UnknownPlaceId>>,
                    <<10, 14, 90, 2757>>},
        annots \in {<<>>, <<Annot(12, 13)>>, <<Annot(1, 2), Annot(12, 99)>>,
                    <<Annot(12, 13), Annot(1, 2)>>, <<Annot(1, 2)>>}}

\* main at the head of the classification loop, the list fetched.
AtClassify(list) ==
    /\ pc = "classify"
    /\ taxon_id = Some(11)
    /\ place_id = Some(11)
    /\ page = 1
    /\ total_results = None
    /\ all_observations = <<>>
    /\ observations = list
    /\ idx = 0
    /\ obs_rg_accurate = <<>>
    /\ obs_other = <<>>
    /\ all_place_ids = {}
    /\ places_missing_info = {}
    /\ raised = "none"
    /\ out = {<<"Analyzing annotations", 0>>, <<"Saved csv", Len(list)>>,
              <<"Saved json", Len(list)>>, <<"Summary", Len(list)>>}
    /\ last_call = api_get_request(FALSE, DEBUG_MODE)
    /\ requests = <<>>
    /\ fetch_failed = FALSE
    /\ honest = TRUE
    /\ reported = None
    /\ enriched = <<>>
    /\ pages = <<>>
    /\ elevations = <<>>
    /\ backfill_calls = <<>>
    /\ csv_file = save_to_csv(list, None)
    /\ annotation_analysis = Some(analyze_annotations(list))
    /\ coordinates = Some(MainCoordinates)
    /\ queries = <<>>
    /\ fn_in = None
    /\ fn_out = None

InitEnrich ==
    /\ DEBUG_MODE \in BOOLEAN
    /\ \E o \in EnrichInputs : AtClassify(<<o>>)

NextEnrich == EnrichStep

SpecEnrich == InitEnrich /\ [][NextEnrich]_vars

(***************************************************************************)
(* The classification loop and the sorts on lists of observations drawn    *)
(* from the fields the classification reads.                               *)
(***************************************************************************)
ClassifyFields ==
    {[grade |-> grade, geo |-> geo, acc |-> acc] :
        grade \in {Some("research"), Some("needs_id"), None},
        geo \in {None, Some("obscured")},
        acc \in {None, Some(1000)}}

\* The lists of 1..n observations with those fields; the i-th has id i.
ClassifyLists(n) ==
    {[i \in 1..Len(fs) |->
        Obs(i, fs[i].grade, fs[i].geo, fs[i].acc, Date(Some(3), Some(20)),
            <<1, 14, 2757>>, <<>>)] :
        fs \in SeqsOf(ClassifyFields, 1, n)}

InitClassify ==
    /\ DEBUG_MODE \in BOOLEAN
    /\ \E list \in ClassifyLists(MaxObs) : AtClassify(list)

NextClassify ==
    \/ ClassifyStep
    \/ SortBuckets

SpecClassify == InitClassify /\ [][NextClassify]_vars

(***************************************************************************)
(* The sorts on buckets whose records carry every shape of date: no date   *)
(* at all, or a date whose month or day may be null.  Init is main at the  *)
(* end of the classification loop, the buckets filled by the loop.         *)
(***************************************************************************)
SortDates ==
    {None,
     Date(None, Some(5)), Date(Some(3), Some(20)), Date(Some(1), Some(1)),
     Date(Some(3), Some(2)), Date(Some(3), None)}

\* The lists of 1..n observations of one grade with those dates; the i-th has id i.
SortLists(n) ==
    {[i \in 1..Len(ds) |->
        Obs(i, grade, None, None, ds[i], <<14>>, <<>>)] :
        ds \in SeqsOf(SortDates, 1, n),
        grade \in {Some("research"), Some("needs_id")}}

\* The buckets the classification loop fills from the records, in order.
RECURSIVE ClassifyAll(_, _, _)
ClassifyAll(rg_accurate, other, records) ==
    IF records = <<>>
    THEN [rg_accurate |-> rg_accurate, other |-> other]
    ELSE LET b == ClassifyInto(rg_accurate, other, Head(records))
         IN  ClassifyAll(b.rg_accurate, b.other, Tail(records))

InitSort ==
    /\ DEBUG_MODE = FALSE
    /\ \E list \in SortLists(MaxSortLen) :
        LET records == [i \in 1..Len(list) |->
                            get_location_data(list[i], MetersToFeetString(100))]
            buckets == ClassifyAll(<<>>, <<>>, records)
        IN  /\ pc = "classify"
            /\ observations = list
            /\ idx = Len(list)
            /\ enriched = records
            /\ obs_rg_accurate = buckets.rg_accurate
            /\ obs_other = buckets.other
            /\ all_place_ids = UNION {Range(list[i].place_ids) : i \in 1..Len(list)}
            /\ out = {<<"Analyzing annotations", 0>>, <<"Saved csv", Len(list)>>,
                      <<"Saved json", Len(list)>>, <<"Summary", Len(list)>>}
            /\ elevations = [i \in 1..Len(list) |->
                                [status_code |-> 200, body |-> "number",
                                 meters |-> 100]]
            /\ csv_file = save_to_csv(list, None)
            /\ annotation_analysis = Some(analyze_annotations(list))
    /\ pages = <<>>
    /\ backfill_calls = <<>>
    /\ coordinates = Some(MainCoordinates)
    /\ queries = <<>>
    /\ taxon_id = Some(11)
    /\ place_id = Some(11)
    /\ page = 1
    /\ total_results = None
    /\ all_observations = <<>>
    /\ places_missing_info = {}
    /\ raised = "none"
    /\ last_call = api_get_request(FALSE, DEBUG_MODE)
    /\ requests = <<>>
    /\ fetch_failed = FALSE
    /\ honest = TRUE
    /\ reported = None
    /\ fn_in = None
    /\ fn_out = None

NextSort == SortBuckets

SpecSort == InitSort /\ [][NextSort]_vars

(***************************************************************************)
(* get_place_id and get_taxon_id applied to a query and a response drawn   *)
(* from the names and candidate lists above.                               *)
(***************************************************************************)
InitResolve ==
    /\ pc = "resolve"
    /\ DEBUG_MODE = FALSE
    /\ FreshRun
    /\ \E q \in QueryNames, r \in AutocompleteResponses(MaxCandidates) :
        fn_in = Some([name |-> q, response |-> r])
    /\ fn_out = None

CallGetPlaceId ==
    /\ pc = "resolve"
    /\ fn_out' = Some(get_place_id(Val(fn_in).name, Val(fn_in).response))
    /\ pc' = "place_returned"
    /\ UNCHANGED <<DEBUG_MODE, coordinates, queries, pages, elevations, backfill_calls, csv_file,
                   annotation_analysis, reported, taxon_id, place_id, page, total_results,
                   all_observations, observations, idx, obs_rg_accurate,
                   obs_other, all_place_ids, places_missing_info, raised, out,
                   last_call, requests, fetch_failed, honest, enriched, fn_in>>

CallGetTaxonId ==
    /\ pc = "resolve"
    /\ fn_out' = Some(get_taxon_id(Val(fn_in).name, Val(fn_in).response))
    /\ pc' = "taxon_returned"
    /\ UNCHANGED <<DEBUG_MODE, coordinates, queries, pages, elevations, backfill_calls, csv_file,
                   annotation_analysis, reported, taxon_id, place_id, page, total_results,
                   all_observations, observations, idx, obs_rg_accurate,
                   obs_other, all_place_ids, places_missing_info, raised, out,
                   last_call, requests, fetch_failed, honest, enriched, fn_in>>

NextResolve ==
    \/ CallGetPlaceId
    \/ CallGetTaxonId

SpecResolve == InitResolve /\ [][NextResolve]_vars

(***************************************************************************)
(* fetch_observations called with and without a bounding box, against a    *)
(* server that answers each page request in any way: any status, any page  *)
(* of up to PageCap records, any total or none.  Each request returns, so  *)
(* the loop, while it is in it, takes its next step.                       *)
(***************************************************************************)
FetchCoordinates ==
    {None, Some(<<>>), Some(<<4173, -12110, 4032>>), Some(MainCoordinates)}

InitFetch ==
    /\ pc = "fetch"
    /\ DEBUG_MODE = FALSE
    /\ taxon_id = Some(11)
    /\ place_id = Some(12)
    /\ coordinates \in FetchCoordinates
    /\ page = 1
    /\ total_results = None
    /\ all_observations = <<>>
    /\ observations = <<>>
    /\ idx = 0
    /\ obs_rg_accurate = <<>>
    /\ obs_other = <<>>
    /\ all_place_ids = {}
    /\ places_missing_info = {}
    /\ raised = "none"
    /\ out = {}
    /\ last_call = NoCall
    /\ requests = <<>>
    /\ queries = <<>>
    /\ fetch_failed = FALSE
    /\ honest = TRUE
    /\ reported = None
    /\ enriched = <<>>
    /\ pages = <<>>
    /\ elevations = <<>>
    /\ backfill_calls = <<>>
    /\ csv_file = None
    /\ annotation_analysis = None
    /\ fn_in = None
    /\ fn_out = None

NextFetch == FetchPage

SpecFetch == InitFetch /\ [][NextFetch]_vars

SpecFetchLive == SpecFetch /\ WF_vars(FetchPage)

(***************************************************************************)
(* print_observation applied to the records get_location_data returns for  *)
(* observations of every geoprivacy, with and without places, with a       *)
(* short and a long first place name, with and without a status label.     *)
(***************************************************************************)
PrintInputs ==
    {get_location_data(
        Obs(1, Some("research"), geo, None, Date(Some(3), Some(20)), places, annots),
        elevation) :
        geo \in {None, Some("open"), Some("obscured"), Some("private")},
        places \in {<<>>, <<1, 14, 2757>>, <<14, 10, UnknownPlaceId>>,
                    <<14, 3957>>},
        annots \in {<<>>, <<Annot(12, 13)>>, <<Annot(12, 99)>>},
        elevation \in {MetersToFeetString(100), "Error"}}

InitPrint ==
    /\ pc = "print"
    /\ DEBUG_MODE = FALSE
    /\ FreshRun
    /\ \E record \in PrintInputs : fn_in = Some(record)
    /\ fn_out = None

CallPrintObservation ==
    /\ pc = "print"
    /\ fn_out' = Some(PrintedLine(Val(fn_in)))
    /\ pc' = "print_returned"
    /\ UNCHANGED <<DEBUG_MODE, coordinates, queries, pages, elevations,
                   backfill_calls, csv_file, annotation_analysis, reported,
                   taxon_id, place_id, page, total_results, all_observations,
                   observations, idx, obs_rg_accurate, obs_other,
                   all_place_ids, places_missing_info, raised, out, last_call,
                   requests, fetch_failed, honest, enriched, fn_in>>

NextPrint == CallPrintObservation

SpecPrint == InitPrint /\ [][NextPrint]_vars

(***************************************************************************)
(* analyze_annotations applied to lists of observations, the empty list    *)
(* included, that carry no annotation, one, or several, with and without   *)
(* labels in the tables.                                                   *)
(***************************************************************************)
AnalyzeAnnotations ==
    {<<>>, <<Annot(12, 13)>>, <<Annot(1, 2), Annot(12, 99)>>,
     <<Annot(12, 13), Annot(12, 13)>>, <<Annot(7, 99)>>}

\* The lists of 0..n observations with those annotations; the i-th has id i.
AnalyzeLists(n) ==
    {[i \in 1..Len(as) |->
        Obs(i, Some("research"), None, None, None, <<14>>, as[i])] :
        as \in SeqsOf(AnalyzeAnnotations, 0, n)}

InitAnalyze ==
    /\ pc = "analyze"
    /\ DEBUG_MODE = FALSE
    /\ FreshRun
    /\ \E list \in AnalyzeLists(MaxAnalyzeLen) : fn_in = Some(list)
    /\ fn_out = None

CallAnalyzeAnnotations ==
    /\ pc = "analyze"
    /\ fn_out' = Some(analyze_annotations(Val(fn_in)))
    /\ pc' = "analyze_returned"
    /\ UNCHANGED <<DEBUG_MODE, coordinates, queries, pages, elevations, backfill_calls, csv_file,
                   annotation_analysis, reported, taxon_id, place_id, page,
                   total_results, all_observations, observations, idx,
                   obs_rg_accurate, obs_other, all_place_ids,
                   places_missing_info, raised, out, last_call, requests,
                   fetch_failed, honest, enriched, fn_in>>

NextAnalyze == CallAnalyzeAnnotations

SpecAnalyze == InitAnalyze /\ [][NextAnalyze]_vars

(***************************************************************************)
(* The properties                                                          *)
(***************************************************************************)
\* The records in the two buckets, first bucket first.
Bucketed == obs_rg_accurate \o obs_other

\* ceil(n / p)
CeilDiv(n, p) == (n + p - 1) \div p

\* The least element of a non-empty set of integers.
Least(S) == CHOOSE i \in S : \A j \in S : i <= j

\* C1: for every observation, whatever its positional_accuracy and
\* geoprivacy, get_location_data sets accurate_location to true if and only
\* if geoprivacy is not "obscured" and positional_accuracy is unset or below
\* 1000: an obscured observation or one of accuracy 1000 or more is not
\* accurate, every other one is, the unset accuracy included.
C1_AccurateLocationIff ==
    (pc = "classify" /\ idx = 1 /\ Len(observations) = 1) =>
        LET o == observations[1]
            flag == Bucketed[1].accurate_location
        IN  /\ o.geoprivacy = Some("obscured") => flag = FALSE
            /\ (o.positional_accuracy # None
                /\ Val(o.positional_accuracy) >= 1000) => flag = FALSE
            /\ (o.geoprivacy # Some("obscured")
                /\ o.positional_accuracy = None) => flag = TRUE
            /\ (o.geoprivacy # Some("obscured")
                /\ o.positional_accuracy # None
                /\ Val(o.positional_accuracy) <= 999) => flag = TRUE

\* C1's case: an observation of unset accuracy that is not obscured has been
\* enriched and is flagged accurate.
C1_Witness ==
    /\ pc = "classify"
    /\ idx = 1
    /\ observations[1].positional_accuracy = None
    /\ observations[1].geoprivacy = Some("open")
    /\ Bucketed[1].accurate_location = TRUE

\* C2 as stated: when every page was served as the reported total N and the
\* page size say, with no failure, fetch_observations has issued exactly
\* ceil(N / page size) requests, or fewer if a page came back empty, and
\* returns N observations.
C2_HonestFetchCeilRequests ==
    (pc = "fetched" /\ honest) =>
        LET n == Val(total_results)
            asked == Len(requests)
        IN  /\ Len(observations) = n
            /\ asked <= CeilDiv(n, PageCap)
            /\ HonestCount(n, asked) # 0 => asked = CeilDiv(n, PageCap)

\* C2 as amended: under the same conditions fetch_observations has issued
\* exactly ceil(N / page size) requests when N > 0 and exactly one request
\* when N = 0, and returns N observations.
C2_HonestFetchRequests ==
    (pc = "fetched" /\ honest) =>
        LET n == Val(total_results)
        IN  /\ Len(observations) = n
            /\ Len(requests) = Max(1, CeilDiv(n, PageCap))

\* C2's case: an honest fetch of more than one page has returned.
C2_Witness ==
    /\ pc = "fetched"
    /\ honest
    /\ Val(total_results) > PageCap
    /\ Len(requests) >= 2
    /\ Len(observations) = Val(total_results)

\* C3: in fetch_observations the total is recorded from the first successful
\* response and never overwritten by a later page; after each successful
\* page the loop stops exactly when the page was empty or the accumulated
\* count has reached the recorded total, and otherwise goes on to page + 1;
\* the pages are requested in the order 1, 2, 3, ...
C3_FetchLoopStep ==
    [][pc = "fetch" =>
        /\ page = Len(requests) + 1
        /\ requests' = Append(requests, page)
        /\ total_results # None => total_results' = total_results
        /\ ~fetch_failed' =>
            /\ total_results = None =>
                total_results' = IF reported' = None THEN Some(0) ELSE reported'
            /\ (pc' = "fetched") <=>
                  (\/ Len(all_observations') = Len(all_observations)
                   \/ Len(all_observations') >= Val(total_results'))
            /\ pc' = "fetch" => page' = page + 1
            /\ pc' = "fetched" => page' = page]_vars

\* C3's case: three pages were requested in order and the last response
\* reported another total than the one recorded from the first.
C3_Witness ==
    /\ pc = "fetched"
    /\ ~fetch_failed
    /\ requests = <<1, 2, 3>>
    /\ reported # None
    /\ reported # total_results

\* C4: when a page request returns a non-success status the fetch returns at
\* once with the observations accumulated from the earlier pages, unchanged,
\* and an error of kind "UpstreamFetchError" reaches the caller.
C4_FailedFetchSignalsError ==
    (pc = "fetched" /\ fetch_failed) =>
        /\ observations = all_observations
        /\ page = Len(requests)
        /\ raised = "UpstreamFetchError"

\* What main prints or writes after fetch_observations has returned.
AfterFetchOutputs ==
    {"No observations found", "Analyzing annotations", "Saved csv",
     "Saved json", "Summary", "Quality grades", "Annotation breakdown",
     "print_observation", "Missing place_id label", "Fetched place info",
     "No results found for place ID", "Error fetching place info"}

\* C5: when a page request has returned a non-success status main halts: it
\* does not enrich, classify, export or report the partial result, and does
\* not report an empty one as "no observations found".
C5_FailedFetchHaltsMain ==
    fetch_failed =>
        /\ pc \in {"fetched", "done"}
        /\ \A o \in out : o[1] \notin AfterFetchOutputs

\* C6: a request of api_get_request that is not served from the cache is
\* followed by a sleep of at least one second, and one that is served from
\* the cache by none, whatever DEBUG_MODE is.
C6_SleepIffNotCached ==
    last_call.made =>
        /\ ~last_call.from_cache => last_call.slept >= 1
        /\ last_call.from_cache => last_call.slept = 0

\* C7: after every iteration of the classification loop and after the sorts,
\* the two buckets together hold as many records as observations were
\* processed, every processed record is in one of them, and none is in both.
C7_PartitionTotal ==
    /\ Len(obs_rg_accurate) + Len(obs_other) = idx
    /\ Range(obs_rg_accurate) \cap Range(obs_other) = {}
    /\ \A i \in 1..Len(enriched) :
        enriched[i] \in Range(obs_rg_accurate) \cup Range(obs_other)

\* C7's case: the loop and the sorts are over and both buckets hold records.
C7_Witness ==
    /\ pc = "report"
    /\ idx = Len(observations)
    /\ obs_rg_accurate # <<>>
    /\ obs_other # <<>>

\* Whether the record is of research grade with an accurate location.
IsResearchAccurate(r) ==
    r.quality_grade = Some("research") /\ r.accurate_location = TRUE

IsNotResearchAccurate(r) == ~IsResearchAccurate(r)

\* C8: an enriched record is in the first bucket if and only if its quality
\* grade is "research" and its accurate_location flag is true, and in the
\* second bucket otherwise.
C8_BucketIff ==
    \A i \in 1..Len(enriched) :
        /\ enriched[i] \in Range(obs_rg_accurate) <=> IsResearchAccurate(enriched[i])
        /\ enriched[i] \in Range(obs_other) <=> ~IsResearchAccurate(enriched[i])

\* C8's case: a research-grade record with an accurate location is in the
\* first bucket and a research-grade record with an inaccurate one in the
\* second.
C8_Witness ==
    /\ idx = 2
    /\ Len(obs_rg_accurate) = 1
    /\ \E i \in 1..Len(obs_other) :
        /\ obs_other[i].quality_grade = Some("research")
        /\ obs_other[i].accurate_location = FALSE

\* Whether the sorts of main have been run on the buckets.
SortsRun ==
    /\ observations # <<>>
    /\ idx = Len(observations)
    /\ pc \in {"report", "backfill", "done", "crashed"}

\* Whether one of the sorts raised: the run ended after the loop and before
\* the report's first line.
SortRaised ==
    /\ pc = "crashed"
    /\ observations # <<>>
    /\ idx = Len(observations)
    /\ <<"Quality grades", 0>> \notin out

\* A month or day as the claim orders it: unknown after every known value.
UnknownLast(o) == IF o = None THEN NoDateKey ELSE Val(o)

\* The records ordered by (month, day), unknown last, ties in the order given.
MonthDayOrder(records) ==
    StableSort(records,
        [i \in 1..Len(records) |->
            IF records[i].observed_on_details = None
            THEN 100 * NoDateKey + NoDateKey
            ELSE 100 * UnknownLast(Val(records[i].observed_on_details).month)
                 + UnknownLast(Val(records[i].observed_on_details).day)])

\* C9: after the two sorts of main each bucket is in the order of the key
\* (month, day) ascending, a record whose date, month or day is missing after
\* all records with known values, records of equal keys in fetch order.
C9_SortsGiveMonthDayOrder ==
    SortsRun =>
        /\ ~SortRaised
        /\ obs_rg_accurate = MonthDayOrder(SelectSeq(enriched, IsResearchAccurate))
        /\ obs_other = MonthDayOrder(SelectSeq(enriched, IsNotResearchAccurate))

\* C10: get_place_id returns the id of the first candidate whose display
\* name equals the query case-insensitively whenever there is one anywhere
\* in the list; if there is none, of the first candidate whose display name
\* contains the query; if there is none either, of the first candidate.
C10_ExactThenContainsThenFirst ==
    (/\ pc = "place_returned"
     /\ Val(fn_in).response.status_code = 200
     /\ Val(fn_in).response.results # None
     /\ Val(Val(fn_in).response.results) # <<>>) =>
        LET q == Lower(Val(fn_in).name)
            results == Val(Val(fn_in).response.results)
            exact == {i \in 1..Len(results) : Lower(results[i].name) = q}
            partial == {i \in 1..Len(results) : Contains(q, Lower(results[i].name))}
            chosen == IF exact # {} THEN Least(exact)
                      ELSE IF partial # {} THEN Least(partial)
                      ELSE 1
        IN  Val(fn_out) = [exc |-> "none", value |-> Some(results[chosen].id)]

\* C11: when the place search succeeds with an empty result list, or with no
\* results field, get_place_id returns None without raising; and a
\* successful search returns None in that case only.
C11_EmptySearchReturnsNone ==
    (pc = "place_returned" /\ Val(fn_in).response.status_code = 200) =>
        LET results == ResultsOrEmpty(Val(fn_in).response)
        IN  /\ Val(fn_out).exc = "none"
            /\ Val(fn_out).value = None <=> results = <<>>

\* C12: get_taxon_id returns the id of the first candidate, in the order of
\* the response, whose name equals the query case-insensitively, and None
\* when no candidate does, when the list is empty or missing, or when the
\* request did not succeed; a candidate that only contains the query, or the
\* first candidate, is never returned in its place.
C12_TaxonExactOrNone ==
    pc = "taxon_returned" =>
        LET q == Lower(Val(fn_in).name)
            response == Val(fn_in).response
            results == ResultsOrEmpty(response)
            exact == {i \in 1..Len(results) : Lower(results[i].name) = q}
        IN  /\ Val(fn_out).exc = "none"
            /\ Val(fn_out).value =
                 IF response.status_code = 200 /\ exact # {}
                 THEN Some(results[Least(exact)].id)
                 ELSE None

\* C12's case: the exact match is returned although an earlier candidate
\* contains the query.
C12_Witness ==
    /\ pc = "taxon_returned"
    /\ Val(fn_in).response.status_code = 200
    /\ Val(fn_in).response.results # None
    /\ LET results == Val(Val(fn_in).response.results)
           q == Lower(Val(fn_in).name)
       IN  /\ Len(results) >= 2
           /\ Lower(results[1].name) # q
           /\ Contains(q, Lower(results[1].name))
           /\ Lower(results[2].name) = q
           /\ Val(fn_out).value = Some(results[2].id)

\* Whether the run has done nothing beyond identifier resolution: no page
\* request, no enrichment, no export, no report.
NothingBeyondResolution ==
    /\ requests = <<>>
    /\ pages = <<>>
    /\ elevations = <<>>
    /\ enriched = <<>>
    /\ csv_file = None
    /\ annotation_analysis = None
    /\ backfill_calls = <<>>
    /\ \A o \in out :
        o[1] \notin AfterFetchOutputs
                    \cup {"Total observations found", "Error fetching data"}

\* C13: a run in which the taxon or the place could not be resolved has
\* ended, has reported which of the two was not found, and has requested no
\* page, enriched, exported and reported nothing; and a page is requested
\* only when both ids are resolved.
C13_UnresolvedHaltsAndReports ==
    /\ ~Truthy(taxon_id) =>
        /\ pc \in {"taxon", "done"}
        /\ NothingBeyondResolution
        /\ pc = "done" => <<"Could not find taxon ID", 0>> \in out
    /\ (Truthy(taxon_id) /\ ~Truthy(place_id)) =>
        /\ pc \in {"place", "done"}
        /\ NothingBeyondResolution
        /\ pc = "done" => <<"Could not find place ID", 0>> \in out
    /\ (pc = "fetch" \/ requests # <<>>) =>
        Truthy(taxon_id) /\ Truthy(place_id)

\* Whether the elevation response is missing, malformed or an error body.
BadElevation(response) ==
    response.status_code # 200 \/ response.body # "number"

\* C14: every elevation lookup that met a non-200 status, an empty content,
\* invalid JSON, JSON without the elevation field or with an elevation that
\* is no number has stored "Error" in the record of its observation; none
\* has raised out of get_location_data and ended main.
C14_ElevationFailureStoresError ==
    \A i \in 1..Len(elevations) :
        BadElevation(elevations[i]) =>
            /\ i <= Len(enriched)
            /\ enriched[i].elevation = "Error"

\* How many times x occurs in the sequence.
Occurrences(seq, x) == Cardinality({i \in 1..Len(seq) : seq[i] = x})

\* Whether main has run to the end of its pass over the place ids.
RanToEnd == pc = "done" /\ observations # <<>>

C16_BackfillOncePerMissingId ==
    /\ \A id \in Range(backfill_calls) :
        /\ Occurrences(backfill_calls, id) = 1
        /\ id \notin DOMAIN places_info
        /\ \E i \in 1..Len(enriched) : id \in Range(enriched[i].place_ids)
    /\ \A p \in Range(requests) : Occurrences(requests, p) = 1
    /\ fetch_failed => pc # "fetch"
    /\ Len(elevations) <= Len(observations)
    /\ Len(elevations) <= Len(enriched) + 1

\* C16's case: the backfill call on the id without a label failed and the
\* run has reached its end without calling again.
C16_Witness ==
    /\ RanToEnd
    /\ <<"Error fetching place info", 500>> \in out
    /\ backfill_calls = <<UnknownPlaceId>>
    /\ Cardinality(all_place_ids) >= 3

\* The console lines whose number is a count or a status, not an id.
CountLines ==
    {"Saved csv", "Saved json", "Summary", "Error fetching data",
     "Error fetching place info"}

\* Whether some console line names the id.
NamedOnConsole(id) == \E o \in out : o[1] \notin CountLines /\ o[2] = id

\* C17: every error the enrichment absorbs has left a console line that
\* names the offending id: the observation of a failed elevation lookup, the
\* place id without a label, the annotation term or value id without a
\* label.
C17_AbsorbedErrorsNamed ==
    \A i \in 1..Len(enriched) :
        LET obs == observations[i]
        IN  /\ enriched[i].elevation = "Error" =>
                \E o \in out :
                    /\ o[1] \in {"Invalid API reponse",
                                 "Response received but contains invalid JSON",
                                 "Raw response"}
                    /\ o[2] = obs.id
            /\ \A j \in 1..Len(obs.place_ids) :
                obs.place_ids[j] \notin DOMAIN places_info =>
                    <<"Missing place_id label", obs.place_ids[j]>> \in out
            /\ \A j \in 1..Len(obs.annotations) :
                /\ get_term_label(obs.annotations[j].controlled_attribute_id) = None
                    => NamedOnConsole(obs.annotations[j].controlled_attribute_id)
                /\ get_value_label(obs.annotations[j].controlled_value_id) = None
                    => NamedOnConsole(obs.annotations[j].controlled_value_id)

\* The concatenation of the lists, in order.
RECURSIVE Flatten(_)
Flatten(lists) ==
    IF lists = <<>> THEN <<>> ELSE Head(lists) \o Flatten(Tail(lists))

\* C18: with no failed page, fetch_observations returns the concatenation of
\* the pages' result lists in page order; and the CSV file written for a
\* non-empty result is the header row of the sixteen fixed columns followed
\* by one data row per fetched observation, in the order fetched.
C18_FetchOrderAndCsvRows ==
    /\ (pc = "fetched" /\ ~fetch_failed) => observations = Flatten(pages)
    /\ (pc \in {"classify", "report", "backfill"}) => csv_file # None
    /\ csv_file # None =>
        LET file == Val(csv_file)
        IN  /\ Len(file) = Len(observations) + 1
            /\ file[1] = fieldnames
            /\ Len(file[1]) = 16
            /\ \A i \in 1..Len(observations) :
                /\ Len(file[i + 1]) = 16
                /\ file[i + 1][1] = Some(observations[i].id)
                /\ file[i + 1][7] = observations[i].positional_accuracy
                /\ file[i + 1][8] = observations[i].geoprivacy
                /\ file[i + 1][13] = observations[i].quality_grade

\* C18's case: three observations, not all the same, were fetched without
\* failure, as the server's total and page size say, and exported.
C18_Witness ==
    /\ pc = "classify"
    /\ honest
    /\ ~fetch_failed
    /\ Len(observations) = 3
    /\ observations[1].id # observations[3].id
    /\ csv_file # None
    /\ Len(Val(csv_file)) = 4

\* C19: analyze_annotations puts each observation that carries at least one
\* annotation exactly once in observations_with_annotations, however many
\* annotations it carries, and no observation without annotations; and
\* annotation_percentage is 100 * (that list's length) / (the number of
\* observations), 0 for an empty input.
C19_AnnotatedOnceAndPercentage ==
    pc = "analyze_returned" =>
        LET list == Val(fn_in)
            result == Val(fn_out)
            with == result.observations_with_annotations
            pct == result.annotation_percentage
        IN  /\ \A i \in 1..Len(list) :
                Occurrences(with, list[i]) =
                    IF Len(list[i].annotations) >= 1 THEN 1 ELSE 0
            /\ Range(with) \subseteq Range(list)
            /\ result.total_observations = Len(list)
            /\ pct.den > 0
            /\ IF list = <<>>
               THEN pct.num = 0
               ELSE pct.num * Len(list) = 100 * Len(with) * pct.den

\* C19's case: of three observations one carries two annotations, one
\* carries one and one carries none.
C19_Witness ==
    /\ pc = "analyze_returned"
    /\ Len(Val(fn_in)) = 3
    /\ \E i, j, k \in 1..3 :
        /\ Len(Val(fn_in)[i].annotations) = 2
        /\ Len(Val(fn_in)[j].annotations) = 1
        /\ Len(Val(fn_in)[k].annotations) = 0
    /\ Len(Val(fn_out).observations_with_annotations) = 2
    /\ Val(fn_out).annotation_percentage = [num |-> 200, den |-> 3]

\* What the reporter prints or writes.
ReporterOutputs ==
    {"Saved csv", "Saved json", "Summary", "Quality grades",
     "Annotation breakdown", "print_observation"}

\* Whether every fetched observation has been enriched.
AllEnriched == observations # <<>> /\ Len(enriched) = Len(observations)

\* C20: the stages of a run follow one another in the order resolution,
\* fetch, enrichment, classification and aggregation, report: nothing is
\* exported or printed by the reporter, nothing is aggregated and no record
\* is put in a bucket before every observation has been enriched; no
\* observation is enriched before the fetch has returned, and no page is
\* requested before both ids are resolved or after the fetch has returned.
C20_StagesInOrder ==
    /\ (\/ csv_file # None
        \/ \E o \in out : o[1] \in ReporterOutputs) => AllEnriched
    /\ annotation_analysis # None => AllEnriched
    /\ (obs_rg_accurate # <<>> \/ obs_other # <<>>) => AllEnriched
    /\ (enriched # <<>> \/ elevations # <<>>) =>
        pc \in {"classify", "report", "backfill", "done", "crashed"}
    /\ pc = "fetch" => Truthy(taxon_id) /\ Truthy(place_id)
    /\ requests # <<>> => pc \in {"fetch", "fetched"}

\* The last annotation of the observation with the term id, or None.
LastAnnotationOf(obs, term_id) ==
    LET at == {j \in 1..Len(obs.annotations) :
                  obs.annotations[j].controlled_attribute_id = term_id}
    IN  IF at = {} THEN None
        ELSE Some(obs.annotations[CHOOSE j \in at : \A k \in at : k <= j])

\* C21: an annotation term id or value id without a local label yields the
\* placeholder string "Not found (<id>)", never None: as the status of the
\* enriched record when the Plant Phenology annotation's value has no label,
\* and as the keys of the breakdown analyze_annotations returns.
C21_MissingLabelPlaceholder ==
    /\ \A i \in 1..Len(enriched) :
        LET phenology == LastAnnotationOf(observations[i], 12)
        IN  (/\ phenology # None
             /\ Val(phenology).controlled_value_id \notin DOMAIN value_labels) =>
                enriched[i].status =
                    Some("Not found ("
                         \o ToString(Val(phenology).controlled_value_id) \o ")")
    /\ annotation_analysis # None =>
        \A key \in DOMAIN Val(annotation_analysis).annotation_breakdown :
            key[1] # None /\ key[2] # None

\* The name of the last place of the list whose type in the static table is
\* one of the types, or "" when the list has none.
LastOfType(place_ids, types) ==
    LET at == {j \in 1..Len(place_ids) :
                  /\ place_ids[j] \in DOMAIN places_info
                  /\ places_info[place_ids[j]].place_type \in types}
    IN  IF at = {} THEN ""
        ELSE places_info[place_ids[CHOOSE j \in at : \A k \in at : k <= j]].name

\* C22: in the enriched record country is the name of the last place of the
\* observation's place-id list with place type 12, state of the last with
\* type 8, county of the last with type 9 or 1001, whatever the areas; a
\* type that no place of the list has leaves the field "".
C22_LastPlaceOfTypeWins ==
    \A i \in 1..Len(enriched) :
        /\ enriched[i].country = LastOfType(observations[i].place_ids, {Some(12)})
        /\ enriched[i].state = LastOfType(observations[i].place_ids, {Some(8)})
        /\ enriched[i].county =
              LastOfType(observations[i].place_ids, {Some(9), Some(1001)})

\* C22's case: the list holds Oregon before California and the parish Saint
\* James before the county Siskiyou, and no country: the later and larger
\* place gives state and county, country is left "".
C22_Witness ==
    /\ Len(enriched) = 1
    /\ observations[1].place_ids = <<10, 14, 90, 2757>>
    /\ enriched[1].state = "California"
    /\ enriched[1].county = "Siskiyou"
    /\ enriched[1].country = ""

\* The record the lookup service holds for the place id: the table's entry,
\* or the placeholder of area 0.
PlaceRecord(id) ==
    IF id \in DOMAIN places_info
    THEN places_info[id]
    ELSE [name |-> "Not found (" \o ToString(id) \o ")", bbox_area |-> 0,
          place_type |-> None]

C24_StatusFromPhenology ==
    \A i \in 1..Len(enriched) :
        LET phenology == LastAnnotationOf(observations[i], 12)
        IN  enriched[i].status =
                IF phenology = None
                THEN Some("")
                ELSE IF Val(phenology).controlled_value_id \in DOMAIN value_labels
                THEN Some(value_labels[Val(phenology).controlled_value_id])
                ELSE None

\* C24's case: a Plant Phenology annotation of value Flowering is followed
\* by a Life Stage annotation and the status is "Flowering".
C24_Witness ==
    /\ Len(enriched) = 1
    /\ observations[1].annotations = <<Annot(12, 13), Annot(1, 2)>>
    /\ enriched[1].status = Some("Flowering")

\* C25: in one fetch every page request carries the same filter parameters
\* and its own page number; with a bounding box (a list of four coordinates)
\* they are place_id "any" and the four corners nelat, nelng, swlat, swlng,
\* never the numeric place id; without one they are the numeric place id
\* and no corner.
C25_BoundingBoxReplacesPlace ==
    \A k \in 1..Len(queries) :
        LET q == queries[k]
            box == coordinates # None /\ Len(Val(coordinates)) = 4
        IN  /\ q.page = k
            /\ [q EXCEPT !.page = 1] = queries[1]
            /\ q.taxon_id = ToString(Val(taxon_id))
            /\ box =>
                /\ q.place_id = "any"
                /\ <<q.nelat, q.nelng, q.swlat, q.swlng>> =
                      <<Some(Val(coordinates)[1]), Some(Val(coordinates)[2]),
                        Some(Val(coordinates)[3]), Some(Val(coordinates)[4])>>
            /\ ~box =>
                /\ q.place_id = ToString(Val(place_id))
                /\ <<q.nelat, q.nelng, q.swlat, q.swlng>> =
                      <<None, None, None, None>>

\* C25's case: a fetch with a bounding box has requested two pages.
C25_Witness ==
    /\ pc = "fetched"
    /\ coordinates = Some(MainCoordinates)
    /\ Len(queries) = 2
    /\ queries[2].place_id = "any"
    /\ queries[2].swlng = Some(-12320)

\* C26: the line print_observation prints for a record ends with the marker
\* "(obscured)" if and only if the record's geoprivacy is "obscured"; a
\* record of unset geoprivacy or of another value, "open" for one, is
\* printed without the marker.
C26_ObscuredMarkerIff ==
    (pc = "print_returned" /\ Val(fn_out).exc = "none") =>
        (Val(fn_out).obscured = "(obscured)"
            <=> Val(fn_in).geoprivacy = Some("obscured"))

\* The text print_observation gives a place name of the line: the name, cut
\* to the width of the column.
Shown(name) ==
    IF Len(name) > 27 THEN SubSeq(name, 1, 27) \o "..." ELSE name

\* C27: for a record whose status can be printed, print_observation does not
\* raise and prints the name of the first element of the area-sorted
\* places_info, a record of the smallest area, or the empty string when the
\* record has no places at all.
C27_SmallestPlaceOrEmpty ==
    (pc = "print_returned" /\ Val(fn_in).status # None) =>
        LET infos == Val(fn_in).places_info
        IN  /\ Val(fn_out).exc = "none"
            /\ IF infos = <<>>
               THEN Val(fn_out).place = ""
               ELSE \E j \in 1..Len(infos) :
                        /\ \A k \in 1..Len(infos) :
                            infos[j].bbox_area <= infos[k].bbox_area
                        /\ Val(fn_out).place = Shown(infos[j].name)

\* C28: fetch_observations terminates whatever the server answers, as long
\* as each request returns: while the loop goes on, every page requested so
\* far has added at least one observation and the accumulated count is below
\* the total recorded from the first response, so the loop is left after
\* finitely many page requests.
C28_FetchTerminates ==
    /\ [](pc = "fetch" /\ requests # <<>> =>
            /\ total_results # None
            /\ Len(requests) <= Len(all_observations)
            /\ Len(all_observations) < Val(total_results))
    /\ (pc = "fetch" ~> pc = "fetched")

\* C28's case: the loop has been left after three page requests to a server
\* that did not serve the pages its total and page size promise.
C28_Witness ==
    /\ pc = "fetched"
    /\ ~honest
    /\ Len(requests) = 3

====
